---- MODULE Spec2Model ----
(***************************************************************************)
(* The anonymous-unsubscribe token workflow of postorius:                  *)
(*   AnonymousUnsubscribeEmailView.post  (views/list.py 552-590)           *)
(*   AnonymousUnsubscribeView.get        (views/list.py 593-629)           *)
(*   UnsubscribeEmailImp                 (verification_email.py 35-110)    *)
(* over the shared Django cache.  Every cache call, the mail send and the  *)
(* call to the core are one step of a worker, so that workers interleave   *)
(* at the places where the deployed code can interleave.  The mail send    *)
(* and the call to the core may raise; the calls to the cache return,      *)
(* except in SpecFaulty, where a cache write of a request may raise.       *)
(*                                                                         *)
(* Further down: remove_role and handle_subscription_request of postorius, *)
(* the replies view of hyperkitty, and the alembic migration               *)
(* 9735f5e5dbdb of the core, each with its own state and specification.    *)
(*                                                                         *)
(* Strings that are formatted into cache keys are sequences of their       *)
(* '_'-separated parts: "unsubscribe_{}".format(t) is <<"unsubscribe">>    *)
(* followed by the parts of t.                                             *)
(***************************************************************************)
EXTENDS Integers, Sequences, FiniteSets, TLC

\* The anonymous-unsubscribe workflow: the cache, the handlers in flight, the
\* mails sent, the number of them, the tokens consumed by a confirmation.
VARIABLES store, req, mailed, sent, consumed

\* remove_role: the rosters of the list and the handler.
VARIABLES the_list, role_req

\* handle_subscription_request: the handler and the calls made to the core.
VARIABLES mod_req, moderated

\* replies: the thread and the client that follows next_offset.
VARIABLES thread, pager

\* The alembic migration: the mailinglist table and the revision the
\* database is at.
VARIABLES mailinglist, alembic_version

unsubVars == <<store, req, mailed, sent, consumed>>

roleVars == <<the_list, role_req>>

modVars == <<mod_req, moderated>>

replyVars == <<thread, pager>>

migVars == <<mailinglist, alembic_version>>

\* What the views of the anonymous-unsubscribe workflow never touch.
others == <<roleVars, modVars, replyVars, migVars>>

vars == <<unsubVars, others>>

(* ------------------------------ bounds -------------------------------- *)

\* settings.VERIFICATION_CODE_EXPIRATION, in clock units.
VERIFICATION_CODE_EXPIRATION == 2

\* Number of mails the outbound channel delivers in one behaviour; after
\* that send_mail only raises.
MaxMails == 2

\* range(5) in get_uuid.
MaxAttempts == 5

Procs == {1, 2}

\* The one worker of the sequential specification.
SeqWorkers == {1}

Lists == {"l1", "l2"}

\* Inputs of request.POST['email']: two addresses and a malformed one.
EmailInputs == {"a@x.org", "B@x.org", "bad"}

\* sha1 hexdigests: one part each, and few enough to collide.
Tokens == {<<"t1">>, <<"t2">>}

\* request.GET.get("token") is None.
NoneToken == << >>

\* A token string a visitor can type: "l1_a@x.org".
ForgedToken == <<"l1", "a@x.org">>

PresentedTokens == Tokens \cup {ForgedToken, NoneToken}

(* ------------------------- pure functions ----------------------------- *)

\* re.match(r"^[a-zA-Z0-9._%+-]+@[a-zA-Z0-9.-]+\.[a-zA-Z]{2,}$", email)
MatchesPattern(e) == e \in {"a@x.org", "B@x.org"}

Emails == {e \in EmailInputs : MatchesPattern(e)}

\* str.lower() on one part.
LowerPart(s) == IF s = "B@x.org" THEN "b@x.org" ELSE s

Lower(k) == [i \in 1..Len(k) |-> LowerPart(k[i])]

\* cache_key.format(token)
CacheKey(t) == <<"unsubscribe">> \o t

\* "unsubscribe_{}_{}".format(list_id, email).lower()
PendingKey(l, e) == Lower(<<"unsubscribe", l, e>>)

Keys == {CacheKey(t) : t \in Tokens} \cup {PendingKey(l, e) : l \in Lists, e \in Emails}

\* json.dumps({"email": email, "list_id": list_id})
JsonDumps(e, l) == <<"{", e, l, "}">>

\* dict(): a dict without the keys "email" and "list_id".
EmptyDict == [type |-> "dict", email |-> "", list_id |-> ""]

\* json.loads(value_str): the marker value "1" loads as the integer 1.
JsonLoads(s) ==
    IF s = <<"1">> THEN [type |-> "int", email |-> "", list_id |-> ""]
    ELSE [type |-> "dict", email |-> s[2], list_id |-> s[3]]

(* ------------------------------ cache --------------------------------- *)

NoEntry == [val |-> << >>, ttl |-> 0]

\* cache.has_key(key)
HasKey(s, k) == k \in Keys /\ s[k].ttl > 0

\* cache.get(key): << >> stands for None.
CacheGet(s, k) == IF HasKey(s, k) THEN s[k].val ELSE << >>

\* cache.set(key, value, timeout)
CacheSet(s, k, v, timeout) == [s EXCEPT ![k] = [val |-> v, ttl |-> timeout]]

\* cache.delete(key)
CacheDelete(s, k) == IF k \in Keys THEN [s EXCEPT ![k] = NoEntry] ELSE s

\* A cache whose entries never expire.
Age_NoExpiry(s) == s

\* One clock unit passes: every entry ages, an entry at 0 is gone.
Age(s) == [k \in Keys |-> IF s[k].ttl > 1 THEN [s[k] EXCEPT !.ttl = @ - 1] ELSE NoEntry]

\* set_token with the two fields of save_dict exchanged.
SetToken_SwappedFields(s, e, l, t) ==
    CacheSet(s, CacheKey(t), JsonDumps(l, e), VERIFICATION_CODE_EXPIRATION)

\* UnsubscribeEmailImp.set_token
SetToken(s, e, l, t) == CacheSet(s, CacheKey(t), JsonDumps(e, l), VERIFICATION_CODE_EXPIRATION)

\* UnsubscribeEmailImp.get_token
GetTokenData(s, t) ==
    IF CacheGet(s, CacheKey(t)) # << >> THEN JsonLoads(CacheGet(s, CacheKey(t))) ELSE EmptyDict

\* delete_key that forgets to format a token into its cache key.
DeleteKey_NoFormat(s, k, is_token) == CacheDelete(s, k)

\* UnsubscribeEmailImp.delete_key
DeleteKey(s, k, is_token) == CacheDelete(s, IF is_token THEN CacheKey(k) ELSE k)

(* ------------------------------ state --------------------------------- *)

NoCall == << >>

\* The locals of one request handler.
Frame(view, l, e, t) ==
    [view |-> view, pc |-> "idle", list_id |-> l, email |-> e, token |-> t,
     attempts |-> 0, dict_data |-> EmptyDict, key |-> << >>, response |-> "",
     call |-> NoCall, late |-> FALSE, result |-> ""]

Idle == Frame("", "", "", NoneToken)

\* The workflow before any request.
UnsubAtRest ==
    /\ store = [k \in Keys |-> NoEntry]
    /\ req = [p \in Procs |-> Idle]
    /\ mailed = {}
    /\ consumed = {}
    /\ sent = 0

\* The other views and the migration, not in use.
RolesAtRest == the_list = [owner |-> {}, moderator |-> {}] /\ role_req = [pc |-> "idle"]

ModAtRest == mod_req = [pc |-> "idle"] /\ moderated = {}

RepliesAtRest == thread = [n |-> 0, tie |-> 0] /\ pager = [pc |-> "idle"]

MigrationAtRest ==
    mailinglist = [columns |-> {}, rows |-> << >>] /\ alembic_version = "d151c0b8d6f7"

Init ==
    /\ UnsubAtRest
    /\ RolesAtRest /\ ModAtRest /\ RepliesAtRest /\ MigrationAtRest

Free(p) == req[p].pc = "idle"

\* The handler has its answer: the frame keeps it until the redirect is returned.
Done(f, result) == [f EXCEPT !.pc = "done", !.result = result, !.late = FALSE]

Goto(f, pc) == [f EXCEPT !.pc = pc]

(* ------------- AnonymousUnsubscribeEmailView.post --------------------- *)

\* post without the presence check of lines 576-578.
PostBegin_NoPendingCheck(p, l, e, lookup) ==
    /\ Free(p)
    /\ LET f == Frame("post", l, e, NoneToken)
           key == PendingKey(l, e) IN
       req' = [req EXCEPT ![p] =
         IF ~MatchesPattern(e) THEN Done(f, "invalid_email")
         ELSE IF lookup = "http_error" THEN Done(f, "ack_unknown")
         ELSE IF lookup = "pending" THEN Done(f, "ack_core_pending")
         ELSE Goto([f EXCEPT !.key = key], "get_uuid")]
    /\ UNCHANGED <<store, mailed, sent, consumed>>
    /\ UNCHANGED others

\* post that asks the core about the address before it checks the pattern.
PostBegin_LookupFirst(p, l, e, lookup) ==
    /\ Free(p)
    /\ LET f == Frame("post", l, e, NoneToken)
           key == PendingKey(l, e) IN
       req' = [req EXCEPT ![p] =
         IF lookup = "http_error" THEN Done(f, "ack_unknown")
         ELSE IF lookup = "pending" THEN Done(f, "ack_core_pending")
         ELSE IF ~MatchesPattern(e) THEN Done(f, "invalid_email")
         ELSE IF HasKey(store, key) THEN Done([f EXCEPT !.key = key], "ack_duplicate")
         ELSE Goto([f EXCEPT !.key = key], "get_uuid")]
    /\ UNCHANGED <<store, mailed, sent, consumed>>
    /\ UNCHANGED others

\* post that does not ask the core about the address.
PostBegin_NoLookup(p, l, e, lookup) ==
    /\ Free(p)
    /\ LET f == Frame("post", l, e, NoneToken)
           key == PendingKey(l, e) IN
       req' = [req EXCEPT ![p] =
         IF ~MatchesPattern(e) THEN Done(f, "invalid_email")
         ELSE IF HasKey(store, key) THEN Done([f EXCEPT !.key = key], "ack_duplicate")
         ELSE Goto([f EXCEPT !.key = key], "get_uuid")]
    /\ UNCHANGED <<store, mailed, sent, consumed>>
    /\ UNCHANGED others

\* Lines 555-578: the pattern check, client.get_user (lookup is what the
\* core answers), _has_pending_unsub_req and the presence check of the marker.
PostBegin(p, l, e, lookup) ==
    /\ Free(p)
    /\ LET f == Frame("post", l, e, NoneToken)
           key == PendingKey(l, e) IN
       req' = [req EXCEPT ![p] =
         IF ~MatchesPattern(e) THEN Done(f, "invalid_email")
         ELSE IF lookup = "http_error" THEN Done(f, "ack_unknown")
         ELSE IF lookup = "pending" THEN Done(f, "ack_core_pending")
         ELSE IF HasKey(store, key) THEN Done([f EXCEPT !.key = key], "ack_duplicate")
         ELSE Goto([f EXCEPT !.key = key], "get_uuid")]
    /\ UNCHANGED <<store, mailed, sent, consumed>>
    /\ UNCHANGED others

\* get_uuid that returns its candidate without looking it up in the cache.
PostGetUuid_NoCheck(p, c) ==
    /\ req[p].pc = "get_uuid"
    /\ req' = [req EXCEPT ![p] = Goto([@ EXCEPT !.token = c], "send_email")]
    /\ UNCHANGED <<store, mailed, sent, consumed>>
    /\ UNCHANGED others

\* get_uuid without the else of its for loop: the fifth candidate is
\* returned though it is in the cache.
PostGetUuid_ReturnsLast(p, c) ==
    /\ req[p].pc = "get_uuid"
    /\ req' = [req EXCEPT ![p] =
         IF ~HasKey(store, CacheKey(c)) THEN Goto([@ EXCEPT !.token = c], "send_email")
         ELSE IF req[p].attempts + 1 < MaxAttempts THEN [@ EXCEPT !.attempts = @ + 1]
         ELSE Goto([@ EXCEPT !.attempts = @ + 1, !.token = c], "send_email")]
    /\ UNCHANGED <<store, mailed, sent, consumed>>
    /\ UNCHANGED others

\* Line 580, one pass of the loop of get_uuid: c is _next_unpredictable_id().
PostGetUuid(p, c) ==
    /\ req[p].pc = "get_uuid"
    /\ req' = [req EXCEPT ![p] =
         IF ~HasKey(store, CacheKey(c)) THEN Goto([@ EXCEPT !.token = c], "send_email")
         ELSE IF req[p].attempts + 1 < MaxAttempts THEN [@ EXCEPT !.attempts = @ + 1]
         ELSE Done([@ EXCEPT !.attempts = @ + 1], "failed_uuid")]
    /\ UNCHANGED <<store, mailed, sent, consumed>>
    /\ UNCHANGED others

\* post that writes the marker before it sends the mail.
PostSendEmail_MarkFirst(p, ok) ==
    /\ req[p].pc = "send_email"
    /\ store' = CacheSet(store, req[p].key, <<"1">>, VERIFICATION_CODE_EXPIRATION)
    /\ IF ok
       THEN /\ sent < MaxMails
            /\ mailed' = mailed \cup {<<req[p].token, req[p].email>>}
            /\ sent' = sent + 1
            /\ req' = [req EXCEPT ![p] = Goto(@, "set_pending")]
       ELSE /\ UNCHANGED <<mailed, sent>>
            /\ req' = [req EXCEPT ![p] = Done(@, "failed_send")]
    /\ UNCHANGED consumed
    /\ UNCHANGED others

\* post that looks for the marker again before it sends the mail.
PostSendEmail_Recheck(p, ok) ==
    /\ req[p].pc = "send_email"
    /\ IF HasKey(store, req[p].key)
       THEN /\ UNCHANGED <<mailed, sent>>
            /\ req' = [req EXCEPT ![p] = Done(@, "ack_duplicate")]
       ELSE IF ok
       THEN /\ sent < MaxMails
            /\ mailed' = mailed \cup {<<req[p].token, req[p].email>>}
            /\ sent' = sent + 1
            /\ req' = [req EXCEPT ![p] = Goto(@, "set_pending")]
       ELSE /\ UNCHANGED <<mailed, sent>>
            /\ req' = [req EXCEPT ![p] = Done(@, "failed_send")]
    /\ UNCHANGED <<store, consumed>>
    /\ UNCHANGED others

\* Line 582: send_mail delivers or raises.
PostSendEmail(p, ok) ==
    /\ req[p].pc = "send_email"
    /\ IF ok
       THEN /\ sent < MaxMails
            /\ mailed' = mailed \cup {<<req[p].token, req[p].email>>}
            /\ sent' = sent + 1
            /\ req' = [req EXCEPT ![p] = Goto(@, "set_pending")]
       ELSE /\ UNCHANGED <<mailed, sent>>
            /\ req' = [req EXCEPT ![p] = Done(@, "failed_send")]
    /\ UNCHANGED <<store, consumed>>
    /\ UNCHANGED others

\* Line 584.
PostSetPending(p) ==
    /\ req[p].pc = "set_pending"
    /\ store' = CacheSet(store, req[p].key, <<"1">>, VERIFICATION_CODE_EXPIRATION)
    /\ req' = [req EXCEPT ![p] = Goto(@, "set_token")]
    /\ UNCHANGED <<mailed, sent, consumed>>
    /\ UNCHANGED others

\* Lines 585-586.
PostSetToken(p) ==
    /\ req[p].pc = "set_token"
    /\ store' = SetToken(store, req[p].email, req[p].list_id, req[p].token)
    /\ req' = [req EXCEPT ![p] = Done(@, "ack_sent")]
    /\ UNCHANGED <<mailed, sent, consumed>>
    /\ UNCHANGED others

\* Line 584 when cache.set raises: except Exception, lines 587-589.
PostSetPendingRaises(p) ==
    /\ req[p].pc = "set_pending"
    /\ req' = [req EXCEPT ![p] = Done(@, "failed_pending")]
    /\ UNCHANGED <<store, mailed, sent, consumed>>
    /\ UNCHANGED others

\* Line 585 when the cache.set of set_token raises: lines 587-589.
PostSetTokenRaises(p) ==
    /\ req[p].pc = "set_token"
    /\ req' = [req EXCEPT ![p] = Done(@, "failed_token")]
    /\ UNCHANGED <<store, mailed, sent, consumed>>
    /\ UNCHANGED others

(* ------------------ AnonymousUnsubscribeView.get ---------------------- *)

\* get without the check of lines 605-607 for the keys of the payload.
GetBegin_NoPayloadCheck(p, l, t) ==
    /\ Free(p)
    /\ LET f == Frame("get", l, "", t)
           d == GetTokenData(store, t) IN
       req' = [req EXCEPT ![p] =
         IF t = NoneToken THEN Done(f, "invalid_link")
         ELSE IF d.type # "dict" THEN Done(f, "server_error")
         ELSE Goto([f EXCEPT !.dict_data = d], "check_pending")]
    /\ UNCHANGED <<store, mailed, sent, consumed>>
    /\ UNCHANGED others

\* Lines 595-607: dict_data.keys() on the integer 1 raises AttributeError
\* outside every try.
GetBegin(p, l, t) ==
    /\ Free(p)
    /\ LET f == Frame("get", l, "", t)
           d == GetTokenData(store, t) IN
       req' = [req EXCEPT ![p] =
         IF t = NoneToken THEN Done(f, "invalid_link")
         ELSE IF d.type # "dict" THEN Done(f, "server_error")
         ELSE IF d.email = "" \/ d.list_id = "" THEN Done(f, "invalid_token")
         ELSE Goto([f EXCEPT !.dict_data = d], "check_pending")]
    /\ UNCHANGED <<store, mailed, sent, consumed>>
    /\ UNCHANGED others

\* Lines 608-612: the key is built from the list of the URL.
GetKey(f) == PendingKey(f.list_id, f.dict_data.email)

\* get that deletes the token entry when it finds no marker.
GetCheckPending_DeletesStale(p) ==
    /\ req[p].pc = "check_pending"
    /\ LET key == GetKey(req[p]) IN
       /\ req' = [req EXCEPT ![p] =
            IF ~HasKey(store, key) THEN Done([@ EXCEPT !.key = key], "invalid_token")
            ELSE Goto([@ EXCEPT !.key = key], "unsubscribe")]
       /\ store' = IF ~HasKey(store, key) THEN DeleteKey(store, req[p].token, TRUE) ELSE store
    /\ UNCHANGED <<mailed, sent, consumed>>
    /\ UNCHANGED others

\* get without the marker check of lines 610-612.
GetCheckPending_NoCheck(p) ==
    /\ req[p].pc = "check_pending"
    /\ req' = [req EXCEPT ![p] = Goto([@ EXCEPT !.key = GetKey(req[p])], "unsubscribe")]
    /\ UNCHANGED <<store, mailed, sent, consumed>>
    /\ UNCHANGED others

\* Lines 610-612.
GetCheckPending(p) ==
    /\ req[p].pc = "check_pending"
    /\ LET key == GetKey(req[p]) IN
       req' = [req EXCEPT ![p] =
         IF ~HasKey(store, key) THEN Done([@ EXCEPT !.key = key], "invalid_token")
         ELSE Goto([@ EXCEPT !.key = key], "unsubscribe")]
    /\ UNCHANGED <<store, mailed, sent, consumed>>
    /\ UNCHANGED others

\* The list self.mailing_list.unsubscribe acts on.
UnsubscribeList(f) == f.list_id

\* Lines 613-625: the core answers r.
UnsubscribeResponses == {"unsubscribed", "moderation", "ValueError", "HTTPError"}

GetUnsubscribe(p, r) ==
    /\ req[p].pc = "unsubscribe"
    /\ req' = [req EXCEPT ![p] =
         Goto([@ EXCEPT !.response = r,
                        !.call = <<UnsubscribeList(req[p]), req[p].dict_data.email>>],
              "delete_key")]
    /\ UNCHANGED <<store, mailed, sent, consumed>>
    /\ UNCHANGED others

\* Line 627.
GetDeleteKey(p) ==
    /\ req[p].pc = "delete_key"
    /\ store' = DeleteKey(store, req[p].key, FALSE)
    /\ req' = [req EXCEPT ![p] = Goto(@, "delete_token")]
    /\ UNCHANGED <<mailed, sent, consumed>>
    /\ UNCHANGED others

\* get that deletes the token only after an immediate unsubscription.
GetDeleteToken_OnlyOnUnsubscribed(p) ==
    /\ req[p].pc = "delete_token"
    /\ store' = IF req[p].response = "unsubscribed"
                THEN DeleteKey(store, req[p].token, TRUE) ELSE store
    /\ consumed' = consumed \cup {req[p].token}
    /\ req' = [req EXCEPT ![p] = Done(@, req[p].response)]
    /\ UNCHANGED <<mailed, sent>>
    /\ UNCHANGED others

\* Lines 628-629.
GetDeleteToken(p) ==
    /\ req[p].pc = "delete_token"
    /\ store' = DeleteKey(store, req[p].token, TRUE)
    /\ consumed' = consumed \cup {req[p].token}
    /\ req' = [req EXCEPT ![p] = Done(@, req[p].response)]
    /\ UNCHANGED <<mailed, sent>>
    /\ UNCHANGED others

\* Lines 590 and 629 (and every early return): the redirect is returned and
\* the worker is free for the next request.
Return(p) ==
    /\ req[p].pc = "done"
    /\ req' = [req EXCEPT ![p] = Idle]
    /\ UNCHANGED <<store, mailed, sent, consumed>>
    /\ UNCHANGED others

(* ------------------------------ clock --------------------------------- *)

\* A clock unit passes.  The two cache writes of one request (lines 584
\* and 585) are at most one unit apart.
Tick ==
    /\ \A p \in Procs : ~(req[p].pc = "set_token" /\ req[p].late)
    /\ store' = Age(store)
    /\ req' = [p \in Procs |-> IF req[p].pc = "set_token" THEN [req[p] EXCEPT !.late = TRUE] ELSE req[p]]
    /\ UNCHANGED <<mailed, sent, consumed>>
    /\ UNCHANGED others

(* -------------------------- specifications ---------------------------- *)

\* A request arrives with any input.
Begin(p) ==
    \/ \E l \in Lists, e \in EmailInputs, lookup \in {"ok", "http_error", "pending"} :
         PostBegin(p, l, e, lookup)
    \/ \E l \in Lists, t \in PresentedTokens : GetBegin(p, l, t)

\* A handler in flight takes its next step.
Step(p) ==
    \/ \E c \in Tokens : PostGetUuid(p, c)
    \/ \E ok \in BOOLEAN : PostSendEmail(p, ok)
    \/ PostSetPending(p)
    \/ PostSetToken(p)
    \/ GetCheckPending(p)
    \/ \E r \in UnsubscribeResponses : GetUnsubscribe(p, r)
    \/ GetDeleteKey(p)
    \/ GetDeleteToken(p)
    \/ Return(p)

\* One request at a time.
Next == Tick \/ \E p \in SeqWorkers : Begin(p) \/ Step(p)

Spec == Init /\ [][Next]_vars

\* Two workers serve requests at the same time; the requests are the
\* well-formed ones for one list.
ConcBegin(p) ==
    \/ \E e \in Emails : PostBegin(p, "l1", e, "ok")
    \/ \E t \in Tokens : GetBegin(p, "l1", t)

NextConc == Tick \/ \E p \in Procs : ConcBegin(p) \/ Step(p)

SpecConc == Init /\ [][NextConc]_vars

\* The requests of one address on either list, and the confirmations with
\* issued tokens at either list's URL.
LiveBegin(p) ==
    \/ \E l \in Lists : PostBegin(p, l, "a@x.org", "ok")
    \/ \E l \in Lists, t \in Tokens : GetBegin(p, l, t)

NextLive == Tick \/ \E p \in SeqWorkers : LiveBegin(p) \/ Step(p)

\* One request at a time, where time goes on and a handler that has begun
\* runs to its return.
SpecLive ==
    Init /\ [][NextLive]_vars /\ WF_vars(Tick) /\ \A p \in SeqWorkers : WF_vars(Step(p))

\* Two workers serve at the same time the requests of one address on one
\* list and the confirmations with issued tokens.
RaceBegin(p) ==
    \/ PostBegin(p, "l1", "a@x.org", "ok")
    \/ \E t \in Tokens : GetBegin(p, "l1", t)

NextRace == Tick \/ \E p \in Procs : RaceBegin(p) \/ Step(p)

SpecRace == Init /\ [][NextRace]_vars

\* One request at a time over a cache whose writes can fail.
NextFaulty ==
    \/ Next
    \/ \E p \in SeqWorkers : PostSetPendingRaises(p) \/ PostSetTokenRaises(p)

SpecFaulty == Init /\ [][NextFaulty]_vars

(* ------------------------------ claims -------------------------------- *)

\* The step at which worker p takes a request.
Begins(p) == req[p].pc = "idle" /\ req'[p].pc # "idle"

\* The step at which the handler of worker p has its answer.
Ends(p) == req[p].pc # "done" /\ req'[p].pc = "done"

\* The pending marker of the pair (l, e) is live in s.
Marker(s, l, e) == HasKey(s, PendingKey(l, e))

\* The tokens whose live entry in s carries the payload {email: e, list_id: l}.
TokensFor(s, l, e) ==
    {t \in Tokens : HasKey(s, CacheKey(t)) /\ s[CacheKey(t)].val = JsonDumps(e, l)}

\* The user-facing message of a request-unsubscribe outcome.
Acknowledged(result) == result \in {"ack_unknown", "ack_core_pending", "ack_duplicate", "ack_sent"}

\* The request ended with messages.error 'Failed to send email'.
Failed(result) == result \in {"failed_uuid", "failed_send", "failed_pending", "failed_token"}

\* The confirmation ended with messages.success: the member was removed, or
\* the removal waits for a moderator.
Success(result) == result \in {"unsubscribed", "moderation"}

\* C1: a request-unsubscribe for a well-formed email that arrives while the
\* pending marker of its (list, email) is live ends at once with the
\* acknowledgment: it draws no token, sends no mail and leaves the store as
\* it was.
C1_DuplicateSuppressed ==
    [][\A p \in Procs :
         (/\ Begins(p)
          /\ req'[p].view = "post"
          /\ MatchesPattern(req'[p].email)
          /\ Marker(store, req'[p].list_id, req'[p].email))
         => (/\ req'[p].pc = "done"
             /\ Acknowledged(req'[p].result)
             /\ req'[p].token = NoneToken
             /\ store' = store
             /\ mailed' = mailed
             /\ sent' = sent)]_vars

\* Two requests for one pair, the second suppressed: one token, one mail.
C1_Witness ==
    \E p \in Procs :
        /\ req[p].pc = "done"
        /\ req[p].result = "ack_duplicate"
        /\ Marker(store, req[p].list_id, req[p].email)
        /\ sent = 1
        /\ Cardinality(mailed) = 1
        /\ Cardinality(TokensFor(store, req[p].list_id, req[p].email)) = 1

C3_TokenProvesAddress ==
    [][\A p \in Procs :
         (req[p].call = NoCall /\ req'[p].call # NoCall)
         => (/\ <<req[p].token, req'[p].call[2]>> \in mailed
             /\ \A e \in Emails : <<req[p].token, e>> \in mailed => e = req'[p].call[2])]_vars

Payload(f) == f.dict_data

\* C5: when the external unsubscribe raises (ValueError or any other
\* exception), the token entry and the pending marker of the request the
\* token was issued for are both gone when the confirmation ends.
C5_CleanupOnFailure ==
    [][\A p \in Procs :
         (Ends(p) /\ req'[p].view = "get" /\ req'[p].response \in {"ValueError", "HTTPError"})
         => (/\ ~HasKey(store', CacheKey(req'[p].token))
             /\ ~Marker(store', Payload(req'[p]).list_id, Payload(req'[p]).email))]_vars

\* C6: the external unsubscribe is called on the list of the token's
\* payload, and the marker that is deleted is the marker of that list.
C6_ListOfPayload ==
    \A p \in Procs :
        req[p].call # NoCall
        => (/\ req[p].call[1] = Payload(req[p]).list_id
            /\ req[p].key = PendingKey(Payload(req[p]).list_id, Payload(req[p]).email))

\* C7: at most one live token entry names a given (list_id, email).
C7_OnePendingPerPair ==
    \A l \in Lists, e \in Emails : Cardinality(TokensFor(store, l, e)) <= 1

\* C8: between requests the pending marker of a pair and a token entry with
\* that pair as payload are both present or both absent.
C8_KeysLiveTogether ==
    (\A p \in Procs : req[p].pc \in {"idle", "done"})
    => \A l \in Lists, e \in Emails : Marker(store, l, e) <=> TokensFor(store, l, e) # {}

\* C9: when a request succeeds and no token entry for its pair was in the
\* store before its set_token (nor could its marker be, or the request would
\* have been suppressed), the store then holds the marker of the pair and
\* exactly one token entry for it: under the token of the mailed link, with
\* the payload of the request, and both with time to live.
C9_SuccessfulRequest ==
    [][\A p \in Procs :
         (/\ Ends(p)
          /\ req'[p].result = "ack_sent"
          /\ TokensFor(store, req[p].list_id, req[p].email) = {})
         => (/\ Marker(store', req[p].list_id, req[p].email)
             /\ store'[PendingKey(req[p].list_id, req[p].email)].ttl > 0
             /\ TokensFor(store', req[p].list_id, req[p].email) = {req[p].token}
             /\ <<req[p].token, req[p].email>> \in mailed'
             /\ JsonLoads(store'[CacheKey(req[p].token)].val) =
                   [type |-> "dict", email |-> req[p].email, list_id |-> req[p].list_id]
             /\ store'[CacheKey(req[p].token)].ttl > 0)]_vars

\* A request has succeeded and its two keys are in the store.
C9_Witness ==
    \E p \in Procs :
        /\ req[p].pc = "done"
        /\ req[p].result = "ack_sent"
        /\ Marker(store, req[p].list_id, req[p].email)
        /\ TokensFor(store, req[p].list_id, req[p].email) = {req[p].token}
        /\ <<req[p].token, req[p].email>> \in mailed

\* C10: a confirmation that presents a live token while the pending marker
\* of the token's pair is live is not rejected; it calls the external
\* unsubscribe (once) for the email of the payload, and when it ends the
\* token entry and that marker are gone.
C10_ConfirmationSucceeds ==
    [][\A p \in Procs :
         (Ends(p) /\ req'[p].view = "get" /\ Payload(req'[p]) # EmptyDict /\ Payload(req'[p]).type = "dict")
         => (/\ (req'[p].call = NoCall
                 => ~Marker(store, Payload(req'[p]).list_id, Payload(req'[p]).email))
             /\ (req'[p].call # NoCall
                 => (/\ req'[p].call[2] = Payload(req'[p]).email
                     /\ ~HasKey(store', CacheKey(req'[p].token))
                     /\ ~Marker(store', Payload(req'[p]).list_id, Payload(req'[p]).email))))]_vars

\* Token t was mailed by a request.
Issued(t) == \E e \in Emails : <<t, e>> \in mailed

\* C11: a confirmation that presents a token under whose key the store has
\* no live entry ends at once with 'The token expired or invalid.', calls no
\* unsubscribe and leaves the store as it was; and this is so both for a
\* token that was issued and has expired and for one that was never issued.
C11_ExpiredAsNeverIssued ==
    [][\A p \in Procs :
         (/\ Begins(p)
          /\ req'[p].view = "get"
          /\ req'[p].token # NoneToken
          /\ ~HasKey(store, CacheKey(req'[p].token)))
         => (/\ req'[p].pc = "done"
             /\ req'[p].result = "invalid_token"
             /\ req'[p].call = NoCall
             /\ req'[p].dict_data = EmptyDict
             /\ store' = store
             /\ mailed' = mailed)]_vars

\* A token that was issued, never consumed and has expired is presented and
\* rejected.
C11_Witness ==
    \E p \in Procs :
        /\ req[p].pc = "done"
        /\ req[p].view = "get"
        /\ Issued(req[p].token)
        /\ req[p].token \notin consumed
        /\ ~HasKey(store, CacheKey(req[p].token))
        /\ req[p].dict_data = EmptyDict
        /\ req[p].result = "invalid_token"

\* C12: every request-unsubscribe for a well-formed address ends with the one
\* acknowledgment ('Please check your inbox ...'), whatever happened to it,
\* so that the answer for an address the core knows never differs from the
\* answer for an address it does not know.
C12_SameAcknowledgment ==
    [][\A p \in Procs :
         (Ends(p) /\ req'[p].view = "post" /\ MatchesPattern(req'[p].email))
         => Acknowledged(req'[p].result)]_vars

\* C13: every pass of get_uuid with candidate c leaves the store as it was;
\* when unsubscribe_<c> is not in the store the pass returns c, and fewer
\* than 5 candidates were found present before it; when it is in the store
\* the pass counts it and returns nothing, goes on to the next candidate
\* while fewer than 5 were found present, and raises at the fifth.
C13_GetUuid ==
    [][\A p \in Procs, c \in Tokens :
         PostGetUuid(p, c)
         => (/\ store' = store
             /\ req[p].attempts < MaxAttempts
             /\ ~HasKey(store, CacheKey(c))
                => (/\ req'[p].pc = "send_email"
                    /\ req'[p].token = c
                    /\ req'[p].attempts = req[p].attempts)
             /\ HasKey(store, CacheKey(c))
                => (/\ req'[p].token = NoneToken
                    /\ req'[p].attempts = req[p].attempts + 1
                    /\ req'[p].attempts < MaxAttempts => req'[p].pc = "get_uuid"
                    /\ req'[p].attempts = MaxAttempts
                       => (req'[p].pc = "done" /\ req'[p].result = "failed_uuid")))]_vars

\* get_uuid has raised after five candidates that were all in the store.
C13_Witness ==
    \E p \in Procs :
        /\ req[p].pc = "done"
        /\ req[p].result = "failed_uuid"
        /\ req[p].attempts = MaxAttempts
        /\ \A t \in Tokens : HasKey(store, CacheKey(t))

\* C14: a request whose email fails the address pattern ends at once with
\* 'The email you entered is invalid.', whatever the core would answer about
\* the address: no key is formed, no token drawn, no mail sent, and the
\* store is as it was.
C14_MalformedRejected ==
    [][\A p \in Procs :
         (Begins(p) /\ req'[p].view = "post" /\ ~MatchesPattern(req'[p].email))
         => (/\ req'[p].pc = "done"
             /\ req'[p].result = "invalid_email"
             /\ req'[p].token = NoneToken
             /\ req'[p].key = << >>
             /\ store' = store
             /\ mailed' = mailed
             /\ sent' = sent)]_vars

\* A malformed address has been rejected while the store was not empty.
C14_Witness ==
    \E p \in Procs :
        /\ req[p].pc = "done"
        /\ req[p].view = "post"
        /\ ~MatchesPattern(req[p].email)
        /\ req[p].result = "invalid_email"
        /\ mailed # {}
        /\ \E k \in Keys : HasKey(store, k)

\* C15: a request whose get_uuid has found five candidates in the store ends
\* there with 'Failed to send email'; it has no token, has sent no mail and
\* has written nothing: the store is as it was, without the marker of its
\* pair.
C15_ExhaustionFails ==
    [][\A p \in Procs :
         (req[p].pc = "get_uuid" /\ req'[p].attempts = MaxAttempts)
         => (/\ req'[p].pc = "done"
             /\ req'[p].result = "failed_uuid"
             /\ Failed(req'[p].result)
             /\ req'[p].token = NoneToken
             /\ \A t \in Tokens : <<t, req[p].email>> \in mailed' => <<t, req[p].email>> \in mailed
             /\ sent' = sent
             /\ store' = store
             /\ ~Marker(store', req[p].list_id, req[p].email))]_vars

\* A request has failed for want of a token, and its pair has no marker.
C15_Witness ==
    \E p \in Procs :
        /\ req[p].pc = "done"
        /\ req[p].view = "post"
        /\ req[p].result = "failed_uuid"
        /\ req[p].token = NoneToken
        /\ ~Marker(store, req[p].list_id, req[p].email)
        /\ TokensFor(store, req[p].list_id, req[p].email) = {}

C18_CheckThenAct ==
    [][\A p \in Procs :
         (req'[p].result = "ack_duplicate" /\ req[p].result # "ack_duplicate")
         => (/\ Begins(p)
             /\ Marker(store, req'[p].list_id, req'[p].email))]_vars

\* Two requests for one pair are in flight; both have passed the check,
\* drawn a token and sent their mail, and neither has written the marker.
C18_Witness ==
    \E p, q \in Procs :
        /\ p # q
        /\ req[p].view = "post" /\ req[q].view = "post"
        /\ req[p].list_id = req[q].list_id /\ req[p].email = req[q].email
        /\ req[p].pc = "set_pending" /\ req[q].pc = "set_pending"
        /\ <<req[p].token, req[p].email>> \in mailed
        /\ <<req[q].token, req[q].email>> \in mailed
        /\ sent = 2
        /\ ~Marker(store, req[p].list_id, req[p].email)

\* C19: while one confirmation has called the external unsubscribe with a
\* token and has not yet deleted the token's entry, no other confirmation
\* calls the external unsubscribe with that token.
C19_UnsubscribeOncePerToken ==
    [][\A p, q \in Procs :
         (/\ p # q
          /\ req[q].view = "get"
          /\ req[q].pc \in {"delete_key", "delete_token"}
          /\ req[p].view = "get"
          /\ req[p].token = req[q].token)
         => ~(req[p].call = NoCall /\ req'[p].call # NoCall)]_vars

\* C20: when a request ends with 'Failed to send email', whichever step
\* raised, the store holds neither the marker of its pair nor an entry under
\* the token it drew.
C20_FailureLeavesNoKeys ==
    [][\A p \in Procs :
         (Ends(p) /\ req'[p].view = "post" /\ Failed(req'[p].result))
         => (/\ ~Marker(store', req'[p].list_id, req'[p].email)
             /\ ~HasKey(store', CacheKey(req'[p].token)))]_vars

\* The confirmation was rejected: 'Invalid Link.' or 'The token expired or
\* invalid.'.
Rejected(result) == result \in {"invalid_link", "invalid_token"}

\* C21: a confirmation that is rejected has called no unsubscribe, and no
\* step of it changed the store; an entry leaves the store only when a
\* clock unit passes or in the deletes of a confirmation that has called
\* the external unsubscribe.
C21_RejectedChangesNothing ==
    [][/\ \A p \in Procs :
            (Ends(p) /\ req'[p].view = "get" /\ Rejected(req'[p].result))
            => (req'[p].call = NoCall /\ store' = store)
       /\ \A p \in Procs :
            (req[p].pc = "check_pending" /\ req'[p] # req[p]) => store' = store
       /\ \A k \in Keys :
            (HasKey(store, k) /\ ~HasKey(store', k))
            => \/ store' = Age(store)
               \/ \E p \in Procs :
                    /\ req[p].view = "get"
                    /\ req[p].pc \in {"delete_key", "delete_token"}
                    /\ req[p].call # NoCall
                    /\ req'[p] # req[p]]_vars

\* A confirmation with a live token has been rejected for want of the
\* marker, and the token's entry is still in the store.
C21_Witness ==
    \E p \in Procs :
        /\ req[p].pc = "done"
        /\ req[p].view = "get"
        /\ req[p].result = "invalid_token"
        /\ req[p].dict_data # EmptyDict
        /\ req[p].call = NoCall
        /\ HasKey(store, CacheKey(req[p].token))

\* The keys that post writes as pending markers.
MarkerKeys == {PendingKey(l, e) : l \in Lists, e \in Emails}

\* C22: the key under which a confirmation reads the payload of its token is
\* never a live pending marker, and no confirmation ends outside the
\* defined outcomes (with an unhandled exception).
C22_KeySpacesDisjoint ==
    \A p \in Procs :
        req[p].view = "get"
        => (/\ HasKey(store, CacheKey(req[p].token)) => CacheKey(req[p].token) \notin MarkerKeys
            /\ req[p].result # "server_error")

\* C23: a confirmation that finds no marker under the key of (list of the
\* URL, email of the payload) ends there as invalid and calls nothing,
\* though its token entry is live; the external unsubscribe is called only
\* by a confirmation that found that marker.
C23_NoMarkerNoUnsubscribe ==
    [][\A p \in Procs :
         /\ (/\ req[p].pc = "check_pending"
             /\ req'[p] # req[p]
             /\ ~Marker(store, req[p].list_id, req[p].dict_data.email))
            => (/\ req'[p].pc = "done"
                /\ req'[p].result = "invalid_token"
                /\ req'[p].call = NoCall
                /\ store' = store)
         /\ (req[p].pc # "unsubscribe" /\ req'[p].pc = "unsubscribe")
            => (/\ req[p].pc = "check_pending"
                /\ Marker(store, req[p].list_id, req[p].dict_data.email))
         /\ (req[p].call = NoCall /\ req'[p].call # NoCall)
            => req[p].pc = "unsubscribe"]_vars

\* The marker of a pair has expired before the token entry, and a
\* confirmation with the token at the list's own URL has been rejected.
C23_Witness ==
    \E p \in Procs :
        /\ req[p].pc = "done"
        /\ req[p].view = "get"
        /\ req[p].dict_data.list_id = req[p].list_id
        /\ HasKey(store, CacheKey(req[p].token))
        /\ ~Marker(store, req[p].list_id, req[p].dict_data.email)
        /\ req[p].result = "invalid_token"
        /\ req[p].call = NoCall

\* The confirmation ended with messages.error(request, e) and the redirect
\* to the list summary.
ErrorReported(result) == result = "ValueError"

\* C24: a confirmation whose call of the external unsubscribe raised,
\* whatever it raised, ends with an error message and the redirect, and the
\* token entry and the marker it had found are gone.
C24_FailureReported ==
    [][\A p \in Procs :
         (/\ Ends(p)
          /\ req'[p].view = "get"
          /\ req'[p].response \in {"ValueError", "HTTPError"})
         => (/\ ErrorReported(req'[p].result)
             /\ ~HasKey(store', CacheKey(req'[p].token))
             /\ ~HasKey(store', req'[p].key))]_vars

\* C25: a request for a well-formed email for which client.get_user raises
\* an HTTP error, or _has_pending_unsub_req is true, ends at once with the
\* acknowledgment of an accepted request: no token, no mail, and the store
\* as it was, whether or not the pair has a marker.
C25_CoreLookupEndsRequest ==
    [][\A p \in Procs, l \in Lists, e \in Emails, lookup \in {"http_error", "pending"} :
         PostBegin(p, l, e, lookup)
         => (/\ req'[p].pc = "done"
             /\ Acknowledged(req'[p].result)
             /\ req'[p].result \notin {"ack_duplicate", "ack_sent"}
             /\ req'[p].token = NoneToken
             /\ store' = store
             /\ mailed' = mailed
             /\ sent' = sent)]_vars

\* The core had a request pending for an address whose pair has no marker:
\* the request was acknowledged and nothing was issued for the pair.
C25_Witness ==
    \E p \in Procs :
        /\ req[p].pc = "done"
        /\ req[p].view = "post"
        /\ req[p].result = "ack_core_pending"
        /\ req[p].token = NoneToken
        /\ ~Marker(store, req[p].list_id, req[p].email)
        /\ TokensFor(store, req[p].list_id, req[p].email) = {}
        /\ mailed # {}


(***************************************************************************)
(* remove_role (postorius/views/list.py).  The handler reads the roster,   *)
(* answers the requests it refuses, and otherwise asks the core to remove  *)
(* the address.                                                            *)
(***************************************************************************)

Addresses == {"ann@x.org", "bob@x.org", "cy@x.org"}

Roles == {"owner", "moderator"}

Methods == {"GET", "POST"}

RoleIdle == [pc |-> "idle"]

RoleFrame(role, address, pc, redirect, result) ==
    [pc |-> pc, role |-> role, address |-> address, redirect |-> redirect,
     result |-> result]

\* Lines 1299-1320 and 1332-1334 without the test of line 1310.
RemoveRoleBegin_NoLastOwnerCheck(role, address, method, mine) ==
    /\ role_req.pc = "idle"
    /\ role_req' =
         IF address \notin the_list[role]
         THEN RoleFrame(role, address, "done", "list_members", "not_in_group")
         ELSE IF method = "POST"
         THEN RoleFrame(role, address, "remove",
                        IF role = "owner" /\ mine THEN "list_summary"
                                                  ELSE "list_members", "")
         ELSE RoleFrame(role, address, "done", "", "confirm_page")
    /\ UNCHANGED <<the_list, unsubVars, modVars, replyVars, migVars>>

\* Lines 1299-1320 and 1332-1334: the roster is read, an address that is not
\* in it and the last owner are refused with an error message and a redirect
\* to the members page, a GET renders the confirmation page.  mine tells
\* whether the address is one of the verified addresses of the user.
RemoveRoleBegin(role, address, method, mine) ==
    /\ role_req.pc = "idle"
    /\ role_req' =
         IF address \notin the_list[role]
         THEN RoleFrame(role, address, "done", "list_members", "not_in_group")
         ELSE IF role = "owner" /\ Cardinality(the_list[role]) = 1
         THEN RoleFrame(role, address, "done", "list_members", "last_owner")
         ELSE IF method = "POST"
         THEN RoleFrame(role, address, "remove",
                        IF role = "owner" /\ mine THEN "list_summary"
                                                  ELSE "list_members", "")
         ELSE RoleFrame(role, address, "done", "", "confirm_page")
    /\ UNCHANGED <<the_list, unsubVars, modVars, replyVars, migVars>>

\* Lines 1321-1331: the_list.remove_role, or the HTTPError it raises.
RemoveRoleCall(ok) ==
    /\ role_req.pc = "remove"
    /\ IF ok
       THEN /\ the_list' = [the_list EXCEPT ![role_req.role] = @ \ {role_req.address}]
            /\ role_req' = [role_req EXCEPT !.pc = "done", !.result = "removed"]
       ELSE /\ the_list' = the_list
            /\ role_req' = [role_req EXCEPT !.pc = "done", !.redirect = "list_members",
                                            !.result = "could_not_be_removed"]
    /\ UNCHANGED <<unsubVars, modVars, replyVars, migVars>>

\* The response is returned; the next request may come.
RemoveRoleReturn ==
    /\ role_req.pc = "done"
    /\ role_req' = RoleIdle
    /\ UNCHANGED <<the_list, unsubVars, modVars, replyVars, migVars>>

\* A list owned by every address, with any moderators.
InitRoles ==
    /\ the_list \in [owner : {Addresses}, moderator : SUBSET Addresses]
    /\ role_req = RoleIdle
    /\ UnsubAtRest /\ ModAtRest /\ RepliesAtRest /\ MigrationAtRest

NextRoles ==
    \/ \E role \in Roles, address \in Addresses, method \in Methods, mine \in BOOLEAN :
         RemoveRoleBegin(role, address, method, mine)
    \/ \E ok \in BOOLEAN : RemoveRoleCall(ok)
    \/ RemoveRoleReturn

\* Requests to remove_role, one after the other.
SpecRoles == InitRoles /\ [][NextRoles]_vars

\* C26: remove_role never removes the last owner: after any sequence of
\* requests the list still has an owner, and a request to remove the only
\* owner is refused and leaves both rosters as they were.
C26_LastOwnerStays ==
    /\ [](the_list.owner # {})
    /\ [][\A role \in Roles, address \in Addresses, method \in Methods, mine \in BOOLEAN :
            (RemoveRoleBegin(role, address, method, mine)
             /\ role = "owner" /\ the_list.owner = {address})
            => role_req'.pc = "done" /\ role_req'.result = "last_owner"]_vars
    /\ [][Cardinality(the_list.owner) = 1 => the_list'.owner = the_list.owner]_vars

\* C26 witness: two owners were removed and the request to remove the third
\* was refused.
C26_Witness ==
    /\ role_req.pc = "done"
    /\ role_req.result = "last_owner"
    /\ the_list.owner = {role_req.address}


(***************************************************************************)
(* handle_subscription_request (postorius/views/list.py).                  *)
(***************************************************************************)

\* Lines 1173-1178: the keys of confirmation_messages, in the order of the
\* dict.
confirmation_messages == <<"accept", "reject", "discard", "defer">>

\* A local variable that no assignment has bound.
Unbound == "<unbound>"

\* Lines 1180-1182: the loop assigns action for every key present in the POST
\* data, so the last one present stays; with none present nothing is assigned.
ActionOf(POST) ==
    IF \A i \in DOMAIN confirmation_messages : confirmation_messages[i] \notin POST
    THEN Unbound
    ELSE confirmation_messages[
           CHOOSE i \in DOMAIN confirmation_messages :
             /\ confirmation_messages[i] \in POST
             /\ \A j \in DOMAIN confirmation_messages :
                  j > i => confirmation_messages[j] \notin POST]

PostKeys == SUBSET {"accept", "reject", "discard", "defer"}

RequestIds == {1, 2}

ModIdle == [pc |-> "idle"]

ModFrame(request_id, action, pc, message, redirect, result) ==
    [pc |-> pc, request_id |-> request_id, action |-> action,
     message |-> message, redirect |-> redirect, result |-> result]

\* Lines 1180-1188.  found tells whether get_or_404 finds the list.  Reading
\* action at line 1185 when the loop bound nothing raises UnboundLocalError,
\* which nothing catches: the request ends as a server error, without a
\* message and without a redirect.  A bound action is a key, never None.
HandleSubscriptionRequest(POST, request_id, found) ==
    /\ mod_req.pc = "idle"
    /\ mod_req' =
         IF ~found
         THEN ModFrame(request_id, ActionOf(POST), "done", "", "", "Http404")
         ELSE IF ActionOf(POST) = Unbound
         THEN ModFrame(request_id, Unbound, "done", "", "", "UnboundLocalError")
         ELSE ModFrame(request_id, ActionOf(POST), "moderate", "", "", "")
    /\ UNCHANGED <<moderated, unsubVars, roleVars, replyVars, migVars>>

ModerateResponses == {"ok", "409", "HTTPError"}

\* Lines 1189-1201: the call to the core, the message that reports its
\* outcome, and the redirect.
ModerateRequest(r) ==
    /\ mod_req.pc = "moderate"
    /\ moderated' = moderated \cup {<<mod_req.request_id, mod_req.action>>}
    /\ mod_req' = [mod_req EXCEPT
                     !.pc = "done",
                     !.message = IF r = "HTTPError" THEN "error" ELSE "success",
                     !.redirect = "list_subscription_requests",
                     !.result = r]
    /\ UNCHANGED <<unsubVars, roleVars, replyVars, migVars>>

\* The response is returned; the next request may come.
ModerateReturn ==
    /\ mod_req.pc = "done"
    /\ mod_req' = ModIdle
    /\ UNCHANGED <<moderated, unsubVars, roleVars, replyVars, migVars>>

InitModerate ==
    /\ ModAtRest
    /\ UnsubAtRest /\ RolesAtRest /\ RepliesAtRest /\ MigrationAtRest

NextModerate ==
    \/ \E POST \in PostKeys, request_id \in RequestIds, found \in BOOLEAN :
         HandleSubscriptionRequest(POST, request_id, found)
    \/ \E r \in ModerateResponses : ModerateRequest(r)
    \/ ModerateReturn

\* Requests to handle_subscription_request, one after the other.
SpecModerate == InitModerate /\ [][NextModerate]_vars

\* C27: a POST for an existing list that holds none of accept, reject,
\* discard and defer makes no moderation call and ends with an error message
\* and a redirect to the subscription-requests page.
C27_MissingActionReported ==
    [][\A POST \in PostKeys, request_id \in RequestIds :
         (HandleSubscriptionRequest(POST, request_id, TRUE) /\ POST = {})
         => /\ moderated' = moderated
            /\ mod_req'.pc = "done"
            /\ mod_req'.message = "error"
            /\ mod_req'.redirect = "list_subscription_requests"]_vars


(***************************************************************************)
(* replies and _get_thread_replies (hyperkitty/views/thread.py).  The      *)
(* replies of a thread are numbered 1..n by primary key.  The database     *)
(* orders them by one column, date or thread_order, that is not unique:    *)
(* two emails may bear the same date, and thread_order is NULL until the   *)
(* job that computes it has run.  thread.tie = k > 0 says that replies k   *)
(* and k+1 hold the same value in that column; rows with equal values come *)
(* back in an order the database chooses anew for every query.             *)
(***************************************************************************)

\* Most replies in a thread.
MaxReplies == 13

\* Line 267.
chunk_size == 6

SortModes == {"date", "thread", "subject"}

\* The value by which order_by sorts reply i.
SortKey(t, i) == IF t.tie > 0 /\ i = t.tie + 1 THEN t.tie ELSE i

\* Line 78, order_by(sort_mode): the replies by sort key; swapped tells which
\* of the two orders of the tied pair this query returns.
OrderBy(t, swapped) ==
    [i \in 1..t.n |->
       IF swapped /\ t.tie > 0 /\ i = t.tie THEN t.tie + 1
       ELSE IF swapped /\ t.tie > 0 /\ i = t.tie + 1 THEN t.tie
       ELSE i]

\* Line 78, [offset:offset+limit].
Slice(s, offset, limit) ==
    SubSeq(s, offset + 1, IF offset + limit < Len(s) THEN offset + limit ELSE Len(s))

\* Lines 58-112: the replies of one chunk.
GetThreadReplies(t, limit, offset, swapped) == Slice(OrderBy(t, swapped), offset, limit)

\* Lines 263-301, one request of the client at pager.offset.  A sort mode other
\* than date and thread raises SuspiciousOperation (lines 66-67).  The client
\* appends the chunk to what it has and follows next_offset while more_pending.
Replies(swapped) ==
    /\ pager.pc = "more"
    /\ IF pager.sort \notin {"date", "thread"}
       THEN pager' = [pager EXCEPT !.pc = "SuspiciousOperation"]
       ELSE LET chunk == GetThreadReplies(thread, chunk_size, pager.offset, swapped)
                more_pending == Len(chunk) = chunk_size
            IN  pager' = [pager EXCEPT
                            !.pc = IF more_pending THEN "more" ELSE "finished",
                            !.asked = pager.offset,
                            !.chunk = chunk,
                            !.seen = pager.seen \o chunk,
                            !.more_pending = more_pending,
                            !.next_offset = IF more_pending
                                            THEN pager.offset + chunk_size ELSE -1,
                            !.offset = IF more_pending
                                       THEN pager.offset + chunk_size ELSE pager.offset]
    /\ UNCHANGED <<thread, unsubVars, roleVars, modVars, migVars>>

\* A thread of up to MaxReplies replies, with or without a tied pair, and a
\* client about to ask for offset 0.
InitReplies ==
    /\ thread \in {t \in [n : 0..MaxReplies, tie : 0..MaxReplies] : t.tie < t.n}
    /\ pager \in [pc : {"more"}, sort : SortModes, offset : {0}, asked : {0},
                  chunk : {<< >>}, seen : {<< >>}, more_pending : {FALSE},
                  next_offset : {-1}]
    /\ UnsubAtRest /\ RolesAtRest /\ ModAtRest /\ MigrationAtRest

NextReplies == \E swapped \in BOOLEAN : Replies(swapped)

\* One client walking through the replies of one thread.
SpecReplies == InitReplies /\ [][NextReplies]_vars

\* The chunks received so far hold every reply once, in the sort order.
EveryReplyOnce ==
    /\ Len(pager.seen) = thread.n
    /\ \A i \in 1..thread.n : \E j \in 1..Len(pager.seen) : pager.seen[j] = i
    /\ \A j \in 1..Len(pager.seen) - 1 :
         SortKey(thread, pager.seen[j]) <= SortKey(thread, pager.seen[j + 1])

\* C28: from offset 0, following next_offset while more_pending, the client
\* receives every reply exactly once, in the sort order, in chunks of at most
\* 6; more_pending is true exactly when the chunk holds 6 replies, and
\* next_offset is then offset + 6.
C28_EveryReplyOnce ==
    /\ pager.pc = "finished" => EveryReplyOnce
    /\ Len(pager.chunk) <= chunk_size
    /\ pager.more_pending <=> (pager.pc = "more" /\ Len(pager.chunk) = chunk_size)
    /\ pager.more_pending => pager.next_offset = pager.asked + chunk_size


(***************************************************************************)
(* Migration 9735f5e5dbdb_add_archive_rendering_mode (mailman core).  A    *)
(* table is its set of columns and its rows; a row gives a value to every  *)
(* column.                                                                 *)
(***************************************************************************)

\* Most rows in the table.
MaxRows == 3

\* Lines 30-31.
revision == "9735f5e5dbdb"

down_revision == "d151c0b8d6f7"

\* Columns of mailinglist at down_revision, and the values they hold.
ColumnsBefore == {"list_name", "archive_policy"}

Values == {0, 1}

\* The SQL NULL, distinct from every integer a column holds.
NULL == -1

\* Lines 37-38: add_column of a nullable column; every row holds NULL in it.
AddColumn(t, c) ==
    [columns |-> t.columns \cup {c},
     rows |-> [i \in DOMAIN t.rows |->
                 [k \in t.columns \cup {c} |-> IF k = c THEN NULL ELSE t.rows[i][k]]]]

\* An UPDATE that reaches no row.
ExecuteUpdate_NoRow(t, c, v) == t

\* Line 40: UPDATE mailinglist SET c = v, without a WHERE clause.
ExecuteUpdate(t, c, v) ==
    [t EXCEPT !.rows = [i \in DOMAIN t.rows |-> [t.rows[i] EXCEPT ![c] = v]]]

\* Line 47: drop_column.
DropColumn(t, c) ==
    [columns |-> t.columns \ {c},
     rows |-> [i \in DOMAIN t.rows |-> [k \in t.columns \ {c} |-> t.rows[i][k]]]]

\* Lines 34-41, run by alembic on a database at down_revision.
Upgrade ==
    /\ alembic_version = down_revision
    /\ mailinglist' = ExecuteUpdate(AddColumn(mailinglist, "archive_rendering_mode"),
                                    "archive_rendering_mode", 1)
    /\ alembic_version' = revision
    /\ UNCHANGED <<unsubVars, roleVars, modVars, replyVars>>

\* Lines 44-48, run by alembic on a database at revision.
Downgrade ==
    /\ alembic_version = revision
    /\ mailinglist' = DropColumn(mailinglist, "archive_rendering_mode")
    /\ alembic_version' = down_revision
    /\ UNCHANGED <<unsubVars, roleVars, modVars, replyVars>>

\* A database at down_revision with up to MaxRows mailing lists.
InitMigration ==
    /\ \E n \in 0..MaxRows :
         mailinglist \in [columns : {ColumnsBefore},
                          rows : [1..n -> [ColumnsBefore -> Values]]]
    /\ alembic_version = down_revision
    /\ UnsubAtRest /\ RolesAtRest /\ ModAtRest /\ RepliesAtRest

NextMigration == Upgrade \/ Downgrade

SpecMigration == InitMigration /\ [][NextMigration]_vars

\* C30: upgrade leaves archive_rendering_mode = 1, not NULL, in every row
\* that was in the table, and downgrade after upgrade leaves the table with
\* the columns it had before.
C30_UpgradeDefaultsDowngradeRestores ==
    [][/\ Upgrade =>
            /\ DOMAIN mailinglist'.rows = DOMAIN mailinglist.rows
            /\ \A i \in DOMAIN mailinglist'.rows :
                 mailinglist'.rows[i]["archive_rendering_mode"] = 1
       /\ Downgrade => mailinglist'.columns = ColumnsBefore]_vars

\* C30 witness: an upgraded table with rows.
C30_Witness ==
    /\ alembic_version = revision
    /\ Len(mailinglist.rows) = MaxRows
    /\ "archive_rendering_mode" \in mailinglist.columns

====
